---- MODULE Spec2Model ----
(***************************************************************************)
(* A model of sardem-sarsen.py: the catalog reader (get_s1_grd_path,       *)
(* retrieve_stac_item_by_rel), the archive resolver (extract_zip), the     *)
(* orchestrator (main) and the catalog writer (create_stage_out_catalog,   *)
(* bbox_to_geojson).  The DEM provider and the terrain correction engine   *)
(* are collaborators whose outcome on a run is part of the environment.    *)
(***************************************************************************)
EXTENDS Integers, Sequences, FiniteSets, TLC

VARIABLES
  args,                   \* Args: stac_catalog_folder, bbox, stac_asset_name, out_dir
  fs,                     \* the input documents on disk: location -> document
  env,                    \* what the collaborators and the archives do on this run
  pc,                     \* position of main()
  s1_grd_paths,           \* main: result of get_s1_grd_path
  dem_file,               \* main: result of get_dem
  output_files,           \* main: the collected outputs
  idx,                    \* main: position of the for loop in s1_grd_paths
  extracted_s1_grd_path,  \* main: result of extract_zip for the current product
  temp_dir,               \* the entries of the staging directory temp_extract
  disk,                   \* sizes of the files and directories getsize can see
  out_catalog,            \* the catalog saved by create_stage_out_catalog
  crash,                  \* the exception that ended main(), "none" otherwise
  log                     \* the calls main() made and the messages it logged

vars == <<args, fs, env, pc, s1_grd_paths, dem_file, output_files, idx,
          extracted_s1_grd_path, temp_dir, disk, out_catalog, crash, log>>

(***************************************************************************)
(* Bounds of the model.                                                    *)
(***************************************************************************)
MaxLinks == 3
MaxReaderLinks == 2

(***************************************************************************)
(* Paths.  A path string is its leading slash and its components; "" and   *)
(* "." both have no component.                                             *)
(***************************************************************************)
Path(a, p) == [abs |-> a, parts |-> p]
EmptyPath == Path(FALSE, <<>>)

Front(s) == SubSeq(s, 1, Len(s) - 1)
Last(s) == s[Len(s)]

\* os.path.join(a, b)
join(a, b) == IF b.abs THEN b ELSE Path(a.abs, a.parts \o b.parts)

\* os.path.dirname(p)
dirname(p) == IF p.parts = <<>> THEN p ELSE Path(p.abs, Front(p.parts))

\* os.path.basename(p)
basename(p) == IF p.parts = <<>> THEN "" ELSE Last(p.parts)

\* the component loop of os.path.normpath
RECURSIVE NormParts(_, _, _)
NormParts(abs, todo, done) ==
  IF todo = <<>> THEN done
  ELSE LET comp == Head(todo)
           rest == Tail(todo)
       IN IF comp = "." THEN NormParts(abs, rest, done)
          ELSE IF \/ comp # ".."
                  \/ (~abs /\ done = <<>>)
                  \/ (done # <<>> /\ Last(done) = "..")
               THEN NormParts(abs, rest, Append(done, comp))
          ELSE IF done # <<>> THEN NormParts(abs, rest, Front(done))
          ELSE NormParts(abs, rest, done)

\* os.path.normpath(p)
normpath(p) == Path(p.abs, NormParts(p.abs, p.parts, <<>>))

\* the process working directory
Cwd == Path(TRUE, <<"w">>)

\* os.path.abspath(p)
abspath(p) == normpath(join(Cwd, p))

(***************************************************************************)
(* The file system: a location is the sequence of directory names from the *)
(* root.  Walk follows a path one component at a time from a directory.    *)
(***************************************************************************)
RECURSIVE Walk(_, _)
Walk(loc, parts) ==
  IF parts = <<>> THEN loc
  ELSE LET comp == Head(parts)
       IN IF comp = "." THEN Walk(loc, Tail(parts))
          ELSE IF comp = ".." THEN Walk(IF loc = <<>> THEN loc ELSE Front(loc), Tail(parts))
          ELSE Walk(Append(loc, comp), Tail(parts))

\* the location a path names when it is opened from directory base
Locate(base, p) == IF p.abs THEN Walk(<<>>, p.parts) ELSE Walk(base, p.parts)

\* the location open(p) reads
Opened(p) == Locate(Cwd.parts, p)

\* open + json.load + pystac from_dict succeed: the file is there and is of the kind
CanLoad(p, kind) == Opened(p) \in DOMAIN fs /\ fs[Opened(p)].kind = kind

Load(p) == fs[Opened(p)]


(***************************************************************************)
(* File names.  Item k of a catalog is ik.json, its product archive is     *)
(* pk.zip, whose one top-level entry is pk.SAFE.                           *)
(***************************************************************************)
NameIndexes == 1..(MaxLinks + MaxReaderLinks)

ItemId(k) == "i" \o ToString(k)
ZipName(k) == "p" \o ToString(k) \o ".zip"
SafeName(k) == "p" \o ToString(k) \o ".SAFE"
OutName(k) == "p" \o ToString(k) \o "_sarsen_output.tif"

IsZipName(name) == \E k \in NameIndexes : ZipName(k) = name
ZipIndex(name) == CHOOSE k \in NameIndexes : ZipName(k) = name
IsSafeName(name) == \E k \in NameIndexes : SafeName(k) = name
SafeIndex(name) == CHOOSE k \in NameIndexes : SafeName(k) = name

\* name.replace(".SAFE", "_sarsen_output.tif")
ReplaceSafe(name) == IF IsSafeName(name) THEN OutName(SafeIndex(name)) ELSE name

(***************************************************************************)
(* Catalog Reader.                                                         *)
(***************************************************************************)
None == [kind |-> "None"]

\* absolute_link_href of a link of the catalog document json_file
LinkHref(json_file, target) == normpath(join(dirname(json_file), target))

\* the path get_s1_grd_path appends for an asset href of the item at item_href
AssetPathWrongBase(json_file, item_href, href) == normpath(join(dirname(json_file), href))
AssetPath(json_file, item_href, href) == normpath(join(dirname(item_href), href))

\* the for loop of get_s1_grd_path: an exception leaves the loop with what was
\* appended so far, and the function returns it
RECURSIVE ScanLinks(_, _, _, _)
ScanLinks(json_file, stac_asset_name, links, s1) ==
  IF links = <<>> THEN [paths |-> s1, raised |-> FALSE]
  ELSE LET link == Head(links)
           href == LinkHref(json_file, link.target)
       IN IF link.rel # "item"
          THEN ScanLinks(json_file, stac_asset_name, Tail(links), s1)
          ELSE IF ~CanLoad(href, "item")
          THEN [paths |-> s1, raised |-> TRUE]
          ELSE IF stac_asset_name \in DOMAIN Load(href).assets
          THEN ScanLinks(json_file, stac_asset_name, Tail(links),
                         Append(s1, AssetPath(json_file, href,
                                              Load(href).assets[stac_asset_name].href)))
          ELSE ScanLinks(json_file, stac_asset_name, Tail(links), s1)

get_s1_grd_path(json_file, stac_asset_name) ==
  IF ~CanLoad(json_file, "catalog")
  THEN [paths |-> <<>>, raised |-> TRUE]
  ELSE ScanLinks(json_file, stac_asset_name, Load(json_file).links, <<>>)

\* the for loop of retrieve_stac_item_by_rel: the first link of the relation decides
RECURSIVE FirstByRel(_, _, _)
FirstByRel(stac_catalog_file, stac_item_rel, links) ==
  IF links = <<>> THEN None
  ELSE LET link == Head(links)
           href == LinkHref(stac_catalog_file, link.target)
       IN IF link.rel # stac_item_rel
          THEN FirstByRel(stac_catalog_file, stac_item_rel, Tail(links))
          ELSE IF CanLoad(href, "item") THEN Load(href) ELSE None

retrieve_stac_item_by_rel(stac_catalog_file, stac_item_rel) ==
  IF ~CanLoad(stac_catalog_file, "catalog") THEN None
  ELSE FirstByRel(stac_catalog_file, stac_item_rel, Load(stac_catalog_file).links)

(***************************************************************************)
(* Archive Resolver.                                                       *)
(***************************************************************************)
TempDir == abspath(Path(FALSE, <<"temp_extract">>))

\* what zipfile.ZipFile finds at zip_file: "unreadable", "empty" or "full"
ArchiveKind(zip_file) ==
  IF IsZipName(basename(zip_file)) THEN env.archive[ZipIndex(basename(zip_file))]
  ELSE "unreadable"

ArchiveEntries(zip_file) ==
  IF ArchiveKind(zip_file) = "full" THEN {SafeName(ZipIndex(basename(zip_file)))} ELSE {}

\* the staging directory after extractall
Extracted(zip_file, staged) ==
  IF ArchiveKind(zip_file) = "unreadable" THEN staged
  ELSE staged \union ArchiveEntries(zip_file)

\* the values extract_zip can return: os.listdir lists the staging directory in
\* arbitrary order, and extracted_files[0] is any of its entries
extract_zip(zip_file, staged) ==
  IF ArchiveKind(zip_file) = "unreadable" \/ Extracted(zip_file, staged) = {}
  THEN {EmptyPath}
  ELSE {join(TempDir, Path(FALSE, <<e>>)) : e \in Extracted(zip_file, staged)}

(***************************************************************************)
(* Collaborators.                                                          *)
(***************************************************************************)
\* get_dem: the DEM path, or "" when download_and_stitch raises
get_dem(out_dir) ==
  IF env.dem_ok THEN join(out_dir, Path(FALSE, <<"dem.tif">>)) ELSE EmptyPath

SarsenOutput(s1_file, output_dir) ==
  join(output_dir, Path(FALSE, <<ReplaceSafe(basename(s1_file))>>))

\* terrain_correction returns without raising: the product is a readable .SAFE
\* tree, the engine succeeds on it, and there is a DEM to read
SarsenSucceeds(s1_file, dem) ==
  /\ dem # EmptyPath
  /\ IsSafeName(basename(s1_file))
  /\ env.sarsen_ok[SafeIndex(basename(s1_file))]

run_sarsen(s1_file, dem, output_dir) ==
  IF SarsenSucceeds(s1_file, dem) THEN SarsenOutput(s1_file, output_dir) ELSE EmptyPath

\* the size of the raster the engine writes for a product
RasterSize(s1_file) == 1000 + SafeIndex(basename(s1_file))


(***************************************************************************)
(* Catalog Writer.                                                         *)
(***************************************************************************)
bbox_to_geojson_swapped(bbox) ==
  [type |-> "Polygon",
   coordinates |-> << << <<bbox[1], bbox[2]>>, <<bbox[1], bbox[4]>>,
                         <<bbox[3], bbox[4]>>, <<bbox[3], bbox[2]>>,
                         <<bbox[1], bbox[2]>> >> >>]
bbox_to_geojson(bbox) ==
  [type |-> "Polygon",
   coordinates |-> << << <<bbox[1], bbox[2]>>, <<bbox[3], bbox[2]>>,
                         <<bbox[3], bbox[4]>>, <<bbox[1], bbox[4]>>,
                         <<bbox[1], bbox[2]>> >> >>]

RECURSIVE CommonLen(_, _)
CommonLen(a, b) ==
  IF a = <<>> \/ b = <<>> THEN 0
  ELSE IF Head(a) # Head(b) THEN 0
  ELSE 1 + CommonLen(Tail(a), Tail(b))

\* os.path.relpath(p, start)
relpath(p, start) ==
  LET target == abspath(p).parts
      from == abspath(start).parts
      c == CommonLen(target, from)
  IN Path(FALSE, [i \in 1..(Len(from) - c) |-> ".."] \o SubSeq(target, c + 1, Len(target)))

\* pystac make_relative_href: relative to the directory of start_href, led by "."
make_relative_href(source_href, start_href) ==
  LET rel == relpath(source_href, dirname(start_href))
  IN IF rel.parts # <<>> /\ Head(rel.parts) = ".." THEN rel
     ELSE Path(FALSE, <<".">> \o rel.parts)

\* Item.make_asset_hrefs_relative
make_asset_hrefs_relative(item) ==
  [item EXCEPT !.assets =
     [n \in DOMAIN item.assets |->
        [item.assets[n] EXCEPT !.href = make_relative_href(@, item.self_href)]]]

\* os.path.getsize(p) raises unless p is there
Exists(p) == Opened(p) \in DOMAIN disk
getsize(p) == disk[Opened(p)]

\* the clone of the product asset, rewritten to describe the output file
OutputAsset(item, asset_name, asset_path) ==
  [item.assets[asset_name] EXCEPT
     !.href = abspath(asset_path),
     !.title = "output",
     !.media_type = "image/tiff",
     !.extra_fields = ("file:size" :> getsize(abspath(asset_path))) @@ @,
     !.roles = <<"data">>]

\* the asset mapping the item is given
OutputAssetsMerged(item, asset) == ("output" :> asset) @@ item.assets
OutputAssets(item, asset) == ("output" :> asset)

OutputItemPath(output_dir, item) ==
  abspath(join(join(output_dir, Path(FALSE, <<item.id>>)),
               Path(FALSE, <<item.id \o ".json">>)))

\* the item create_stage_out_catalog adds to the catalog
OutputItem(output_dir, item, bbox, asset_name, asset_path) ==
  make_asset_hrefs_relative(
    [item EXCEPT
       !.self_href = OutputItemPath(output_dir, item),
       !.properties = [@ EXCEPT !.title = basename(asset_path)],
       !.bbox = bbox,
       !.geometry = bbox_to_geojson(bbox),
       !.assets = OutputAssets(item, OutputAsset(item, asset_name, asset_path))])

\* the catalog create_stage_out_catalog saves
create_stage_out_catalog(output_dir, item, bbox, asset_name, asset_path) ==
  [kind |-> "catalog",
   id |-> "SARsen output catalog",
   description |-> "SARsen output catalog",
   href |-> join(output_dir, Path(FALSE, <<"catalog.json">>)),
   catalog_type |-> "SELF_CONTAINED",
   items |-> <<OutputItem(output_dir, item, bbox, asset_name, asset_path)>>]

(***************************************************************************)
(* main().                                                                 *)
(***************************************************************************)
catalog_path == join(args.stac_catalog_folder, Path(FALSE, <<"catalog.json">>))

Event(op, arg, dem, ret) == [op |-> op, arg |-> arg, dem |-> dem, ret |-> ret]

\* Step 2
GetS1GrdPath ==
  /\ pc = "get_s1_grd_path"
  /\ s1_grd_paths' = get_s1_grd_path(catalog_path, args.stac_asset_name).paths
  /\ log' = Append(log, Event("get_s1_grd_path", catalog_path, EmptyPath, EmptyPath))
  /\ pc' = "get_dem"
  /\ UNCHANGED <<args, fs, env, dem_file, output_files, idx, extracted_s1_grd_path,
                 temp_dir, disk, out_catalog, crash>>

\* Step 3
GetDem ==
  /\ pc = "get_dem"
  /\ dem_file' = get_dem(args.out_dir)
  /\ disk' = IF env.dem_ok THEN (Opened(get_dem(args.out_dir)) :> 500) @@ disk ELSE disk
  /\ log' = Append(log, Event("get_dem", EmptyPath, EmptyPath, get_dem(args.out_dir)))
  /\ output_files' = <<>>
  /\ idx' = 1
  /\ pc' = "loop"
  /\ UNCHANGED <<args, fs, env, s1_grd_paths, extracted_s1_grd_path, temp_dir,
                 out_catalog, crash>>

\* the test of line 388
ShouldCorrectNeedsDem(extracted, dem) == extracted # EmptyPath /\ dem # EmptyPath
ShouldCorrect(extracted, dem) == extracted # EmptyPath

\* the loop position after the else branch: continue
AfterFailedExtractionBreak(i, n) == n + 1
AfterFailedExtraction(i, n) == i + 1

\* Step 4, one product: extract_zip and the test of its result
ExtractZip ==
  /\ pc = "loop"
  /\ idx <= Len(s1_grd_paths)
  /\ \E ret \in extract_zip(s1_grd_paths[idx], temp_dir) :
       /\ extracted_s1_grd_path' = ret
       /\ log' = Append(log, Event("extract_zip", s1_grd_paths[idx], EmptyPath, ret))
       /\ IF ShouldCorrect(ret, dem_file)
          THEN pc' = "run_sarsen" /\ idx' = idx
          ELSE pc' = "loop" /\ idx' = AfterFailedExtraction(idx, Len(s1_grd_paths))
  /\ temp_dir' = Extracted(s1_grd_paths[idx], temp_dir)
  /\ UNCHANGED <<args, fs, env, s1_grd_paths, dem_file, output_files, disk,
                 out_catalog, crash>>

\* Step 4, one product: run_sarsen and the append of its result
RunSarsen ==
  /\ pc = "run_sarsen"
  /\ LET ret == run_sarsen(extracted_s1_grd_path, dem_file, args.out_dir)
     IN /\ output_files' = Append(output_files, ret)
        /\ log' = Append(log, Event("run_sarsen", extracted_s1_grd_path, dem_file, ret))
        /\ disk' = IF ret # EmptyPath
                   THEN (Opened(ret) :> RasterSize(extracted_s1_grd_path)) @@ disk
                   ELSE disk
  /\ idx' = idx + 1
  /\ pc' = "loop"
  /\ UNCHANGED <<args, fs, env, s1_grd_paths, dem_file, extracted_s1_grd_path,
                 temp_dir, out_catalog, crash>>

\* the end of the loop and the message of line 393
Completed ==
  /\ pc = "loop"
  /\ idx > Len(s1_grd_paths)
  /\ log' = Append(log, Event("completed", EmptyPath, EmptyPath, EmptyPath))
  /\ pc' = "stage_out"
  /\ UNCHANGED <<args, fs, env, s1_grd_paths, dem_file, output_files, idx,
                 extracted_s1_grd_path, temp_dir, disk, out_catalog, crash>>

\* the representative item of Step 5
Representative == retrieve_stac_item_by_rel(catalog_path, "item")

\* the exception Step 5 raises, in the order Python evaluates lines 396-400 and
\* then the body of create_stage_out_catalog; "none" when it raises nothing
StageOutException ==
  IF Representative = None THEN "AttributeError"
  ELSE IF output_files = <<>> THEN "IndexError"
  ELSE IF args.stac_asset_name \notin DOMAIN Representative.assets THEN "KeyError"
  ELSE IF ~Exists(abspath(output_files[1])) THEN "FileNotFoundError"
  ELSE "none"

\* Step 5 completes
StageOut ==
  /\ pc = "stage_out"
  /\ StageOutException = "none"
  /\ out_catalog' = create_stage_out_catalog(args.out_dir, Representative, args.bbox,
                                             args.stac_asset_name, output_files[1])
  /\ pc' = "done"
  /\ UNCHANGED <<args, fs, env, s1_grd_paths, dem_file, output_files, idx,
                 extracted_s1_grd_path, temp_dir, disk, crash, log>>

\* Step 5 raises: main() has no handler
StageOutRaises ==
  /\ pc = "stage_out"
  /\ StageOutException # "none"
  /\ crash' = StageOutException
  /\ pc' = "raised"
  /\ UNCHANGED <<args, fs, env, s1_grd_paths, dem_file, output_files, idx,
                 extracted_s1_grd_path, temp_dir, disk, out_catalog, log>>

Next ==
  \/ GetS1GrdPath
  \/ GetDem
  \/ ExtractZip
  \/ RunSarsen
  \/ Completed
  \/ StageOut
  \/ StageOutRaises


(***************************************************************************)
(* The runs checked: three families of inputs.                             *)
(***************************************************************************)
AssetName == "PRODUCT"

BBoxes == {<<-118, 34, -117, 35>>, <<-156, 18, -154, 20>>, <<0, 0, 1, 1>>}
OldBBox == <<10, 10, 20, 20>>
OldGeometry == [type |-> "Polygon",
                coordinates |-> << << <<10, 10>>, <<10, 20>>, <<20, 20>>, <<10, 10>> >> >>]

Asset(href, title, extra) ==
  [href |-> href, title |-> title, media_type |-> "application/zip",
   roles |-> <<"data", "archive">>, extra_fields |-> extra]

Thumbnail == Asset(Path(FALSE, <<".", "thumb.png">>), "thumbnail", <<>>)

Item(k, assets) ==
  [kind |-> "item", id |-> ItemId(k), bbox |-> OldBBox, geometry |-> OldGeometry,
   properties |-> [title |-> "S1 GRD"], assets |-> assets, self_href |-> EmptyPath]

Corrupt == [kind |-> "corrupt"]

Catalog(links) == [kind |-> "catalog", links |-> links]

Start(a, f, e) ==
  /\ args = a
  /\ fs = f
  /\ env = e
  /\ pc = "get_s1_grd_path"
  /\ s1_grd_paths = <<>>
  /\ dem_file = EmptyPath
  /\ output_files = <<>>
  /\ idx = 1
  /\ extracted_s1_grd_path = EmptyPath
  /\ temp_dir = {}
  /\ disk = (Opened(Cwd) :> 4096)
  /\ out_catalog = None
  /\ crash = "none"
  /\ log = <<>>

Args(folder, bbox, out_dir) ==
  [stac_catalog_folder |-> folder, bbox |-> bbox, stac_asset_name |-> AssetName,
   out_dir |-> out_dir]

BenignEnv ==
  [dem_ok |-> TRUE,
   archive |-> [k \in NameIndexes |-> "full"],
   sarsen_ok |-> [k \in NameIndexes |-> TRUE]]

\* Orchestrator runs: a catalog in /a/b of up to MaxLinks links.  Link k is not
\* an item link ("other"), or names item ik.json, which is unreadable
\* ("corrupt"), lacks the product asset ("noasset"), or has it; the archive is
\* then unreadable, empty, or full, and the engine fails on it or not.
LinkKinds == {"other", "corrupt", "noasset", "unreadable", "empty", "failing", "good"}

HomeFolder == Path(TRUE, <<"a", "b">>)
HomeOut == Path(TRUE, <<"out">>)

OrchLink(k, kind) ==
  IF kind = "other"
  THEN [rel |-> "root", target |-> Path(FALSE, <<".", "catalog.json">>)]
  ELSE [rel |-> "item", target |-> Path(FALSE, <<".", ItemId(k) \o ".json">>)]

OrchItem(k, kind) ==
  IF kind = "corrupt" THEN Corrupt
  ELSE IF kind = "noasset" THEN Item(k, ("thumbnail" :> Thumbnail))
  ELSE Item(k, (AssetName :> Asset(Path(FALSE, <<".", ZipName(k)>>), "product",
                                   ("file:size" :> 1))))

OrchFs(n, kinds) ==
  (Opened(join(HomeFolder, Path(FALSE, <<"catalog.json">>)))
     :> Catalog([k \in 1..n |-> OrchLink(k, kinds[k])]))
  @@ [loc \in {Append(HomeFolder.parts, ItemId(k) \o ".json") :
                 k \in {j \in 1..n : kinds[j] # "other"}} |->
        LET k == CHOOSE j \in 1..n : loc = Append(HomeFolder.parts, ItemId(j) \o ".json")
        IN OrchItem(k, kinds[k])]

OrchEnv(n, kinds, dem_ok) ==
  [dem_ok |-> dem_ok,
   archive |-> [k \in NameIndexes |->
                  IF k <= n /\ kinds[k] \in {"unreadable", "empty"} THEN kinds[k]
                  ELSE "full"],
   sarsen_ok |-> [k \in NameIndexes |-> ~(k <= n /\ kinds[k] = "failing")]]

OrchestratorInit ==
  \E n \in 0..MaxLinks : \E kinds \in [1..n -> LinkKinds] : \E dem_ok \in BOOLEAN :
    Start(Args(HomeFolder, <<-118, 34, -117, 35>>, HomeOut),
          OrchFs(n, kinds), OrchEnv(n, kinds, dem_ok))

\* a run whose catalog document cannot be read
NoCatalogInit ==
  \E dem_ok \in BOOLEAN :
    Start(Args(HomeFolder, <<-118, 34, -117, 35>>, HomeOut), <<>>, OrchEnv(0, <<>>, dem_ok))

\* Reader runs: the catalog folder is absolute or relative to the working
\* directory; a link is not an item link (0) or names one of Targets; the
\* document at a target is unreadable (0), an item without the product asset
\* (-1), or an item whose product asset has one of Hrefs.
ReaderFolders == {HomeFolder, Path(FALSE, <<"r">>)}

Targets == << Path(FALSE, <<"..", "c", "item.json">>),
              Path(FALSE, <<".", "item.json">>),
              Path(TRUE, <<"e", "x", "..", "item.json">>) >>

Hrefs(j) == << Path(FALSE, <<".", ZipName(j)>>),
               Path(FALSE, <<"..", "z", ZipName(j)>>),
               Path(TRUE, <<"d", ZipName(j)>>) >>

ReaderLink(t) ==
  IF t = 0 THEN [rel |-> "root", target |-> Path(FALSE, <<".", "catalog.json">>)]
  ELSE [rel |-> "item", target |-> Targets[t]]

ReaderItem(j, d) ==
  IF d = 0 THEN Corrupt
  ELSE IF d = -1 THEN Item(j, ("thumbnail" :> Thumbnail))
  ELSE Item(j, (AssetName :> Asset(Hrefs(j)[d], "product", ("file:size" :> 1))))

TargetLoc(folder, j) == Locate(Opened(folder), Targets[j])

ReaderFs(folder, n, choice, docs) ==
  (Append(Opened(folder), "catalog.json")
     :> Catalog([k \in 1..n |-> ReaderLink(choice[k])]))
  @@ [loc \in {TargetLoc(folder, j) : j \in DOMAIN docs} |->
        LET j == CHOOSE i \in DOMAIN docs : loc = TargetLoc(folder, i)
        IN ReaderItem(j, docs[j])]

ReaderInit ==
  \E folder \in ReaderFolders : \E n \in 0..MaxReaderLinks :
    \E choice \in [1..n -> 0..Len(Targets)] :
      \E docs \in [{choice[k] : k \in 1..n} \ {0} -> -1..3] :
        Start(Args(folder, <<0, 0, 1, 1>>, HomeOut),
              ReaderFs(folder, n, choice, docs), BenignEnv)

\* Writer runs: one item, with any prior assets beside the product asset, any
\* bbox and an output directory that is absolute or relative.
OutDirs == {HomeOut, Path(FALSE, <<"out">>), Path(FALSE, <<"..", "o", "run">>)}

PriorProduct == {Asset(Path(FALSE, <<".", ZipName(1)>>), "product", ("file:size" :> 1)),
                 Asset(Path(TRUE, <<"d", ZipName(1)>>), "output", <<>>)}

WriterFs(product, extras) ==
  (Opened(join(HomeFolder, Path(FALSE, <<"catalog.json">>)))
     :> Catalog(<<OrchLink(1, "good")>>))
  @@ (Append(HomeFolder.parts, ItemId(1) \o ".json")
        :> Item(1, (AssetName :> product) @@ [name \in extras |-> Thumbnail]))

WriterInit ==
  \E bbox \in BBoxes : \E out_dir \in OutDirs : \E product \in PriorProduct :
    \E extras \in SUBSET {"thumbnail", "output"} :
      Start(Args(HomeFolder, bbox, out_dir), WriterFs(product, extras), BenignEnv)

Init ==
  \/ OrchestratorInit
  \/ NoCatalogInit
  \/ ReaderInit
  \/ WriterInit

Spec == Init /\ [][Next]_vars


(***************************************************************************)
(* What the log says.                                                      *)
(***************************************************************************)
IsExtract(e) == e.op = "extract_zip"
IsSarsen(e) == e.op = "run_sarsen"
IsDem(e) == e.op = "get_dem"
NonEmpty(p) == p # EmptyPath

ExtractEvents == SelectSeq(log, IsExtract)
SarsenEvents == SelectSeq(log, IsSarsen)
DemEvents == SelectSeq(log, IsDem)

ExtractArgs == [i \in 1..Len(ExtractEvents) |-> ExtractEvents[i].arg]
ExtractRets == [i \in 1..Len(ExtractEvents) |-> ExtractEvents[i].ret]
SarsenArgs == [i \in 1..Len(SarsenEvents) |-> SarsenEvents[i].arg]

CompletedLogged == \E i \in 1..Len(log) : log[i].op = "completed"
LoopOver == pc \in {"stage_out", "done", "raised"}

\* the output item of the saved catalog
SavedItem == out_catalog.items[1]
PublishedLoc ==
  Locate(Opened(dirname(SavedItem.self_href)), SavedItem.assets["output"].href)

(***************************************************************************)
(* C1. Per-item isolation: extract_zip is called once for each discovered  *)
(* product, in discovery order, and run_sarsen once for each extraction    *)
(* that returned a path, whatever failed on the products before; main()    *)
(* never stops inside the loop: there it always has a next step, the last  *)
(* of which logs the completion message.                                   *)
(***************************************************************************)
C1_Attempts ==
  /\ pc = "loop" => ExtractArgs = SubSeq(s1_grd_paths, 1, idx - 1)
  /\ pc = "run_sarsen" => ExtractArgs = SubSeq(s1_grd_paths, 1, idx)
  /\ LoopOver => /\ CompletedLogged
                 /\ ExtractArgs = s1_grd_paths
                 /\ SarsenArgs = SelectSeq(ExtractRets, NonEmpty)

C1_PerItemIsolation ==
  /\ C1_Attempts
  /\ pc \in {"loop", "run_sarsen"} => ENABLED (ExtractZip \/ RunSarsen \/ Completed)

\* three products, the second fails extraction, the third is attempted
C1_Witness ==
  /\ LoopOver
  /\ Len(s1_grd_paths) = 3
  /\ ExtractRets[1] # EmptyPath
  /\ ExtractRets[2] = EmptyPath
  /\ ExtractRets[3] # EmptyPath
  /\ Len(SarsenEvents) = 2

(***************************************************************************)
(* C2. Every element of output_files is a non-empty output path: a product *)
(* whose correction failed contributes nothing.                            *)
(***************************************************************************)
C2_OnlyNonEmptyOutputs ==
  /\ \A i \in 1..Len(output_files) : output_files[i] # EmptyPath
  /\ Len(output_files) = Len(SelectSeq([i \in 1..Len(SarsenEvents) |-> SarsenEvents[i].ret],
                                       NonEmpty))

(***************************************************************************)
(* C3. A catalog is saved only when some product was corrected, and the    *)
(* asset it publishes is then the output of a corrected product.           *)
(***************************************************************************)
C3_CatalogNeedsCorrectedProduct ==
  out_catalog # None =>
    \E i \in 1..Len(SarsenEvents) :
      /\ SarsenEvents[i].ret # EmptyPath
      /\ PublishedLoc = Opened(abspath(SarsenEvents[i].ret))

(***************************************************************************)
(* C4. main() ends abnormally only by indexing an empty output_files: with *)
(* a non-empty output_files catalog assembly does not raise.               *)
(***************************************************************************)
C4_OnlyEmptyOutputsRaise ==
  pc = "raised" => output_files = <<>>

(***************************************************************************)
(* C5. When loading the catalog or any linked item fails, get_s1_grd_path  *)
(* returns the empty sequence.                                             *)
(***************************************************************************)
C5_NoPartialResult ==
  (pc # "get_s1_grd_path"
     /\ get_s1_grd_path(catalog_path, args.stac_asset_name).raised)
  => s1_grd_paths = <<>>

(***************************************************************************)
(* C6. When every document loads, get_s1_grd_path returns, in link order,  *)
(* one path per item link whose item has the asset: the asset href         *)
(* followed from the directory of the item document, itself found by       *)
(* following the link target from the directory of the catalog document.   *)
(***************************************************************************)
CatalogDir == Opened(args.stac_catalog_folder)
CatalogLoc == Append(CatalogDir, "catalog.json")

AllDocumentsLoad ==
  /\ CatalogLoc \in DOMAIN fs
  /\ fs[CatalogLoc].kind = "catalog"
  /\ \A i \in 1..Len(fs[CatalogLoc].links) :
       fs[CatalogLoc].links[i].rel = "item" =>
         /\ Locate(CatalogDir, fs[CatalogLoc].links[i].target) \in DOMAIN fs
         /\ fs[Locate(CatalogDir, fs[CatalogLoc].links[i].target)].kind = "item"

RECURSIVE ExpectedProducts(_)
ExpectedProducts(links) ==
  IF links = <<>> THEN <<>>
  ELSE LET itemLoc == Locate(CatalogDir, Head(links).target)
       IN (IF Head(links).rel = "item" /\ AssetName \in DOMAIN fs[itemLoc].assets
           THEN <<Locate(Front(itemLoc), fs[itemLoc].assets[AssetName].href)>>
           ELSE <<>>) \o ExpectedProducts(Tail(links))

C6_PathsResolveAgainstReferrer ==
  (pc # "get_s1_grd_path" /\ AllDocumentsLoad) =>
    LET expected == ExpectedProducts(fs[CatalogLoc].links)
    IN /\ Len(s1_grd_paths) = Len(expected)
       /\ \A i \in 1..Len(expected) :
            /\ Opened(s1_grd_paths[i]) = expected[i]
            /\ args.stac_catalog_folder.abs => s1_grd_paths[i] = Path(TRUE, expected[i])

\* the catalog /a/b/catalog.json links ../c/item.json, whose asset is ./p1.zip
C6_Witness ==
  /\ pc # "get_s1_grd_path"
  /\ AllDocumentsLoad
  /\ args.stac_catalog_folder = HomeFolder
  /\ Len(fs[CatalogLoc].links) = 1
  /\ fs[CatalogLoc].links[1].target = Path(FALSE, <<"..", "c", "item.json">>)
  /\ s1_grd_paths = <<Path(TRUE, <<"a", "c", ZipName(1)>>)>>

(***************************************************************************)
(* C7. The saved catalog holds one item, whose only asset is "output",     *)
(* with title "output", media type image/tiff, roles data, the size of the *)
(* file on disk, and an href relative to the directory of the item.        *)
(***************************************************************************)
C7_SingleOutputAsset ==
  pc = "done" =>
    /\ Len(out_catalog.items) = 1
    /\ DOMAIN SavedItem.assets = {"output"}
    /\ SavedItem.assets["output"].title = "output"
    /\ SavedItem.assets["output"].media_type = "image/tiff"
    /\ SavedItem.assets["output"].roles = <<"data">>
    /\ SavedItem.assets["output"].extra_fields["file:size"]
         = disk[Opened(abspath(output_files[1]))]
    /\ ~SavedItem.assets["output"].href.abs
    /\ PublishedLoc = Opened(abspath(output_files[1]))

\* the representative item had three assets, one of them already named "output"
C7_Witness ==
  /\ pc = "done"
  /\ DOMAIN Representative.assets = {AssetName, "thumbnail", "output"}
  /\ output_files[1] # EmptyPath
  /\ SavedItem.assets["output"].extra_fields["file:size"] = RasterSize(SarsenArgs[1])

(***************************************************************************)
(* C8. bbox_to_geojson gives the closed ring SW, SE, NE, NW, SW, and the   *)
(* saved item has the bbox of the run and that ring as geometry.           *)
(***************************************************************************)
Ring(b) == << <<b[1], b[2]>>, <<b[3], b[2]>>, <<b[3], b[4]>>, <<b[1], b[4]>>,
              <<b[1], b[2]>> >>

C8_BBoxAndGeometry ==
  pc = "done" =>
    /\ SavedItem.bbox = args.bbox
    /\ SavedItem.geometry.type = "Polygon"
    /\ SavedItem.geometry.coordinates = <<Ring(args.bbox)>>
    /\ Len(SavedItem.geometry.coordinates[1]) = 5
    /\ SavedItem.geometry.coordinates[1][1] = SavedItem.geometry.coordinates[1][5]
    /\ \A b \in BBoxes : bbox_to_geojson(b).coordinates = <<Ring(b)>>

C8_Witness ==
  /\ pc = "done"
  /\ args.bbox = <<-118, 34, -117, 35>>
  /\ Representative.bbox = OldBBox
  /\ Representative.geometry.coordinates # <<Ring(OldBBox)>>
  /\ SavedItem.geometry.coordinates[1][3] = <<-117, 35>>

(***************************************************************************)
(* C9. get_dem is called once, before any extract_zip or run_sarsen; every *)
(* run_sarsen call is given what it returned; and when it returned the     *)
(* empty path, run_sarsen is still called for every extracted product.     *)
(***************************************************************************)
C9_OneSharedDem ==
  /\ Len(DemEvents) <= 1
  /\ \A i \in 1..Len(log) :
       (IsExtract(log[i]) \/ IsSarsen(log[i])) =>
         \E j \in 1..(i - 1) : IsDem(log[j])
  /\ \A i \in 1..Len(SarsenEvents) : SarsenEvents[i].dem = DemEvents[1].ret
  /\ LoopOver => Len(SarsenEvents) = Len(SelectSeq(ExtractRets, NonEmpty))

\* the DEM failed and two products were still handed to run_sarsen with ""
C9_Witness ==
  /\ LoopOver
  /\ ~env.dem_ok
  /\ Len(SarsenEvents) = 2
  /\ SarsenEvents[2].dem = EmptyPath
  /\ SarsenArgs[1] # SarsenArgs[2]

(***************************************************************************)
(* C10. extract_zip returns an entry of the archive it was given, and      *)
(* nothing when that archive has no entry.                                 *)
(***************************************************************************)
C10_OwnEntryOnly ==
  \A i \in 1..Len(ExtractEvents) :
    IF ArchiveEntries(ExtractEvents[i].arg) = {}
    THEN ExtractEvents[i].ret = EmptyPath
    ELSE /\ dirname(ExtractEvents[i].ret) = TempDir
         /\ basename(ExtractEvents[i].ret) \in ArchiveEntries(ExtractEvents[i].arg)

====
